---------------------------- MODULE Spec2Model ----------------------------
(***************************************************************************)
(* Model of the bill-extraction service (src/app): the request handler     *)
(* extract_bill_data of main.py and the functions it calls.                *)
(*                                                                         *)
(* Representation.  Python floats that carry money or quantities are       *)
(* modelled as exact decimals: item_rate, item_quantity and item_amount    *)
(* are integers counting hundredths (20.03 is 2003); a product of two of   *)
(* them counts ten-thousandths.  Python evaluates the same expressions in  *)
(* binary floating point, which agrees with the exact value except within  *)
(* one rounding error of a comparison threshold.                           *)
(* A Python exception is a record of its type name and its message; a     *)
(* call either returns a value or raises an exception.                     *)
(***************************************************************************)
EXTENDS Integers, Sequences, FiniteSets, TLC

VARIABLES
    pc,                \* position of the handler / of the function under call
    attempt,           \* download_document: loop variable attempt
    slept,             \* download_document: the time.sleep calls made so far
    document_bytes,    \* main.py: document_bytes
    doc_type,          \* main.py: doc_type / the classifier's outcome
    image_list,        \* main.py: image_list
    page_num,          \* main.py: page_num of the loop over image_list
    fraud_flags,       \* main.py: fraud_flags of the page being processed
    page_data,         \* main.py: page_data of the page being processed
    validation_errors, \* main.py: validation_errors of that page
    all_page_data,     \* main.py: all_page_data
    extractor,         \* the BillExtractor of the request: its three counters
    duplicate_items,   \* main.py: duplicate_items
    response,          \* what the handler returned or raised
    calls,             \* history: the extraction calls made by the request
                       \* (of enhance_image on its own: the cv2 calls made)
    fraud_log,         \* history: detect_fraud's input and output per page
    arg,               \* the argument of a function called on its own
    ret,               \* what that call returned or raised
    requests           \* the requests served side by side, each with its own
                       \* locals: pc, image_list, page_num, extractor, response

vars == <<pc, attempt, slept, document_bytes, doc_type, image_list, page_num,
          fraud_flags, page_data, validation_errors, all_page_data, extractor,
          duplicate_items, response, calls, fraud_log, arg, ret, requests>>

-----------------------------------------------------------------------------
(* Bounds of the model *)

\* most pages a PDF is rasterized into, and most pages handed to a function
MaxPages == 3
\* most requests served side by side
MaxRequests == 2
\* most page images of a request that is served beside others
MaxCalls == 2
\* most bill items on one page handed to validate_items or detect_duplicates
MaxItems == 2
\* most bytes that follow the part of a signature in a classifier input
MaxTail == 1
\* most page images handed to detect_fraud in one run
MaxFraudPages == 2

-----------------------------------------------------------------------------
(* Generic helpers *)

RECURSIVE SumSeq(_)
SumSeq(s) == IF s = <<>> THEN 0 ELSE Head(s) + SumSeq(Tail(s))

RECURSIVE Flatten(_)
Flatten(ss) == IF ss = <<>> THEN <<>> ELSE Head(ss) \o Flatten(Tail(ss))

Abs(x) == IF x < 0 THEN -x ELSE x

Min(a, b) == IF a < b THEN a ELSE b

\* all sequences over S of length at most n
SeqsUpTo(S, n) == UNION {[1..k -> S] : k \in 0..n}

\* Python's s[:n]
SliceTo(s, n) == SubSeq(s, 1, Min(n, Len(s)))

\* Python's s.startswith(p)
startswith(s, p) == Len(s) >= Len(p) /\ SubSeq(s, 1, Len(p)) = p

\* dict.get(key, default) and key in dict on a record
HasKey(d, k) == k \in DOMAIN d


\* an exception: type(error).__name__ and str(error)
Exception(t, m) == [type |-> t, message |-> m]

\* a call either returns a value or raises an exception
Returned(v) == [value |-> v]
Raised(e) == [raised |-> e]
IsRaised(r) == HasKey(r, "raised")

\* item[key] on a dict that lacks key
KeyError(k) == Exception("KeyError", k)

-----------------------------------------------------------------------------
(* utils.py: DocumentUtils.detect_document_type.  A byte is 0..255. *)

\* b'%PDF'
PDF_MAGIC == <<37, 80, 68, 70>>

\* the keys of image_signatures
JPEG_SIG == <<255, 216, 255>>
PNG_SIG == <<137, 80, 78, 71, 13, 10, 26, 10>>
GIF87_SIG == <<71, 73, 70, 56, 55, 97>>
GIF89_SIG == <<71, 73, 70, 56, 57, 97>>
TIFF_LE_SIG == <<73, 73, 42, 0>>
TIFF_BE_SIG == <<77, 77, 0, 42>>

image_signatures_without_gif89 ==
    {JPEG_SIG, PNG_SIG, GIF87_SIG, TIFF_LE_SIG, TIFF_BE_SIG}

image_signatures ==
    {JPEG_SIG, PNG_SIG, GIF87_SIG, GIF89_SIG, TIFF_LE_SIG, TIFF_BE_SIG}

detect_document_type(content) ==
    IF SliceTo(content, 4) = PDF_MAGIC
    THEN Returned("pdf")
    ELSE IF \E signature \in image_signatures : startswith(content, signature)
         THEN Returned("image")
         ELSE Raised(Exception("ValueError", "Unsupported document type"))

-----------------------------------------------------------------------------
(* validation.py: BillValidator.validate_items.                            *)
(* A page_data is a record (a JSON object); a key the collaborator left    *)
(* out is a field the record lacks.                                        *)

\* the literal 0.01 of abs(expected_amount - actual_amount) > 0.01,
\* counted in ten-thousandths
Tolerance == 100

\* item_amount (hundredths) in the unit of item_rate * item_quantity
InProductUnits(amount) == amount * 100

\* page_data.get("bill_items", [])
get_bill_items(page) == IF HasKey(page, "bill_items") THEN page.bill_items ELSE <<>>

\* the message appended for item number idx (0-based in the loop):
\* f"Item {idx+1} '{item['item_name']}': Rate×Qty = {expected} but Amount = {actual}"
ValidationIssue(idx, item, expected_amount, actual_amount) ==
    [item_index |-> idx + 1, item_name |-> item.item_name,
     expected |-> expected_amount, actual |-> actual_amount]

exceeds_tolerance_doubled(expected_amount, actual_amount) ==
    Abs(expected_amount - InProductUnits(actual_amount)) > 2 * Tolerance

exceeds_tolerance_inclusive(expected_amount, actual_amount) ==
    Abs(expected_amount - InProductUnits(actual_amount)) >= Tolerance

exceeds_tolerance(expected_amount, actual_amount) ==
    Abs(expected_amount - InProductUnits(actual_amount)) > Tolerance

RECURSIVE validate_loop(_, _, _)
validate_loop(items, idx, errors) ==
    IF idx >= Len(items) THEN Returned(errors)
    ELSE LET item == items[idx + 1] IN
         IF ~HasKey(item, "item_rate") THEN Raised(KeyError("item_rate"))
         ELSE IF ~HasKey(item, "item_quantity") THEN Raised(KeyError("item_quantity"))
         ELSE IF ~HasKey(item, "item_amount") THEN Raised(KeyError("item_amount"))
         ELSE LET expected_amount == item.item_rate * item.item_quantity
                  actual_amount == item.item_amount
              IN IF exceeds_tolerance(expected_amount, actual_amount)
                 THEN IF ~HasKey(item, "item_name")
                      THEN Raised(KeyError("item_name"))
                      ELSE validate_loop(items, idx + 1,
                               Append(errors, ValidationIssue(idx, item,
                                          expected_amount, actual_amount)))
                 ELSE validate_loop(items, idx + 1, errors)

validate_items(page) == validate_loop(get_bill_items(page), 0, <<>>)

-----------------------------------------------------------------------------
(* validation.py: BillValidator.detect_duplicates *)

\* f"Duplicate: {item['item_name']}"
DuplicateRecord(item) == [duplicate |-> item.item_name]

dup_key_name_only(item) == <<item.item_name>>

\* key = (item["item_name"], item["item_amount"])
dup_key(item) == <<item.item_name, item.item_amount>>

\* the inner loop over one page's items; st = [seen_items, duplicates]
RECURSIVE dup_items_loop(_, _)
dup_items_loop(items, st) ==
    IF items = <<>> \/ IsRaised(st) THEN st
    ELSE LET item == Head(items) IN
         IF ~HasKey(item, "item_name") THEN Raised(KeyError("item_name"))
         ELSE IF ~HasKey(item, "item_amount") THEN Raised(KeyError("item_amount"))
         ELSE IF dup_key(item) \in st.seen_items
              THEN dup_items_loop(Tail(items),
                       [st EXCEPT !.duplicates = Append(@, DuplicateRecord(item))])
              ELSE dup_items_loop(Tail(items),
                       [st EXCEPT !.seen_items = @ \cup {dup_key(item)}])

\* the outer loop over the pages
RECURSIVE dup_pages_loop(_, _)
dup_pages_loop(pages, st) ==
    IF pages = <<>> \/ IsRaised(st) THEN st
    ELSE dup_pages_loop(Tail(pages),
             dup_items_loop(get_bill_items(Head(pages)), st))

detect_duplicates(all_pages) ==
    LET st == dup_pages_loop(all_pages, [seen_items |-> {}, duplicates |-> <<>>])
    IN IF IsRaised(st) THEN st ELSE Returned(st.duplicates)

-----------------------------------------------------------------------------
(* preprocessing.py: DocumentPreprocessor.detect_fraud.                    *)
(* A byte buffer is a record: head, its leading bytes; length, its number   *)
(* of bytes; and what decoding it as an image yields: decodable, whether   *)
(* cv2.imdecode returns an image; white, np.sum(white_mask > 0); size,      *)
(* white_mask.size; contours, len(contours).  origin is the PDF page a     *)
(* rasterized buffer renders (0 for a downloaded buffer).  For              *)
(* enhance_image: dark, the number of pixels that cv2.adaptiveThreshold     *)
(* maps to 0; rect_angle, what cv2.minAreaRect reports for the coordinates *)
(* of the other pixels, in tenths of a degree.                             *)

\* white_ratio > 0.15: 0.15 is WHITE_RATIO_NUM / WHITE_RATIO_DEN
WHITE_RATIO_NUM == 15
WHITE_RATIO_DEN == 100
\* len(contours) > 1000
CONTOUR_LIMIT == 1000

WHITE_FLAG == "Excessive white patches detected"
FONT_FLAG == "Potential font inconsistency"

\* white / size > 0.15, both sides multiplied by size * 100
white_ratio_exceeds(image) ==
    image.white * WHITE_RATIO_DEN > WHITE_RATIO_NUM * image.size

too_many_contours(image) == image.contours > CONTOUR_LIMIT

detect_fraud_flags_elif(image) ==
    IF white_ratio_exceeds(image) THEN <<WHITE_FLAG>>
    ELSE IF too_many_contours(image) THEN <<FONT_FLAG>> ELSE <<>>

detect_fraud_flags(image) ==
    (IF white_ratio_exceeds(image) THEN <<WHITE_FLAG>> ELSE <<>>)
    \o (IF too_many_contours(image) THEN <<FONT_FLAG>> ELSE <<>>)

detect_fraud(image) ==
    IF ~image.decodable
    THEN Raised(Exception("error", "cvtColor: !_src.empty()"))  \* img is None
    ELSE Returned(detect_fraud_flags(image))

-----------------------------------------------------------------------------
(* extraction.py: BillExtractor.  The text of the collaborator's message   *)
(* is a sequence of tokens: the code-fence marker followed by json, the    *)
(* bare code-fence marker (three backquotes), a run of other text, or the  *)
(* text of one JSON value.                                                 *)

\* the marker of three backquotes followed by json, and the bare marker
FENCE_JSON == [tok |-> "fence_json"]
FENCE == [tok |-> "fence"]
PROSE == [tok |-> "text"]
Json(v) == [tok |-> "json", json |-> v]

\* the markers a split on the bare marker stops at, and those a split on
\* the json marker stops at
BareMarkers == {FENCE_JSON, FENCE}
JsonMarkers == {FENCE_JSON}

\* the index of the first token of s that is one of markers, Len(s) + 1 if none
FirstIndex(s, markers) ==
    IF \E i \in 1..Len(s) : s[i] \in markers
    THEN CHOOSE i \in 1..Len(s) :
            s[i] \in markers /\ \A j \in 1..(i - 1) : s[j] \notin markers
    ELSE Len(s) + 1

\* s.split(marker)[0]
BeforeFirst(s, markers) == SubSeq(s, 1, FirstIndex(s, markers) - 1)

\* what follows the first marker in s
AfterFirst(s, markers) == SubSeq(s, FirstIndex(s, markers) + 1, Len(s))

\* lines 57-60: remove markdown code blocks if present.  The json marker
\* holds the bare marker, so the split on the bare marker that follows the
\* split on the json marker stops at either
strip_code_fences(response_text) ==
    IF \E i \in 1..Len(response_text) : response_text[i] = FENCE_JSON
    THEN BeforeFirst(AfterFirst(response_text, JsonMarkers), BareMarkers)
    ELSE IF \E i \in 1..Len(response_text) : response_text[i] \in BareMarkers
         THEN BeforeFirst(AfterFirst(response_text, BareMarkers), BareMarkers)
         ELSE response_text

\* json.loads(text.strip()): the text must be one JSON value and nothing else
json_loads(text) ==
    IF Len(text) = 1 /\ text[1].tok = "json"
    THEN Returned(text[1].json)
    ELSE Raised(Exception("JSONDecodeError", "Expecting value"))

\* lines 48-51: track token usage
track_usage_total_adds_input_only(counters, usage) ==
    [input_tokens |-> counters.input_tokens + usage.input_tokens,
     output_tokens |-> counters.output_tokens + usage.output_tokens,
     total_tokens |-> counters.total_tokens + usage.input_tokens]

track_usage(counters, usage) ==
    [input_tokens |-> counters.input_tokens + usage.input_tokens,
     output_tokens |-> counters.output_tokens + usage.output_tokens,
     total_tokens |-> counters.total_tokens
                        + usage.input_tokens + usage.output_tokens]

\* BillExtractor.__init__
NewExtractor == [total_tokens |-> 0, input_tokens |-> 0, output_tokens |-> 0]

\* BillExtractor.get_token_usage
get_token_usage(counters) ==
    [total_tokens |-> counters.total_tokens,
     input_tokens |-> counters.input_tokens,
     output_tokens |-> counters.output_tokens]

-----------------------------------------------------------------------------
(* What the collaborators may hand to the handler *)

\* item_rate 10.00, item_quantity 2.00, item_amount 20.00
ItemConsistent ==
    [item_name |-> "Consultation", item_amount |-> 2000,
     item_rate |-> 1000, item_quantity |-> 200]
\* item_rate 25.00, item_quantity 3.00, item_amount 50.00
ItemInconsistent ==
    [item_name |-> "Paracetamol", item_amount |-> 5000,
     item_rate |-> 2500, item_quantity |-> 300]
ItemWithoutRate ==
    [item_name |-> "Syringe", item_amount |-> 1200, item_quantity |-> 100]

PageOf(page_number, items) ==
    [page_no |-> ToString(page_number), page_type |-> "Bill Detail",
     bill_items |-> items]

\* the texts message.content[0].text may be for the call of a page
ResponseTexts(page_number) ==
    { <<Json(PageOf(page_number, <<>>))>>,
      <<PROSE, FENCE_JSON,
        Json(PageOf(page_number, <<ItemConsistent, ItemInconsistent>>)),
        FENCE, PROSE>>,
      <<FENCE,
        Json(PageOf(page_number, <<ItemConsistent, ItemInconsistent, ItemConsistent>>)),
        FENCE>>,
      <<PROSE>>,
      <<Json([page_no |-> ToString(page_number), page_type |-> "Pharmacy"])>>,
      <<Json(PageOf(page_number, <<ItemWithoutRate>>))>> }

\* message.usage of a call
Usages ==
    { [input_tokens |-> 100, output_tokens |-> 50],
      [input_tokens |-> 7, output_tokens |-> 3] }

\* Config.MAX_FILE_SIZE_MB
MAX_FILE_SIZE_MB == 50
BytesPerMB == 1024 * 1024

Buffer(head, length, decodable, white, size, contours, origin) ==
    [head |-> head, length |-> length, decodable |-> decodable,
     white |-> white, size |-> size, contours |-> contours, origin |-> origin,
     dark |-> 0, rect_angle |-> 0]

\* the buffers a URL may serve
Documents ==
    { Buffer(PDF_MAGIC \o <<45, 49, 46, 52>>, 300000, FALSE, 0, 0, 0, 0),
      Buffer(PDF_MAGIC \o <<45, 49, 46, 52>>, MAX_FILE_SIZE_MB * BytesPerMB,
             FALSE, 0, 0, 0, 0),
      Buffer(PDF_MAGIC \o <<45, 49, 46, 52>>, MAX_FILE_SIZE_MB * BytesPerMB + 1,
             FALSE, 0, 0, 0, 0),
      Buffer(PNG_SIG, 40000, TRUE, 20, 100, 12, 0),
      Buffer(JPEG_SIG \o <<224, 0, 16>>, 9000, FALSE, 0, 0, 0, 0),
      Buffer(<<60, 104, 116, 109, 108, 62>>, 512, FALSE, 0, 0, 0, 0),
      Buffer(<<>>, 0, FALSE, 0, 0, 0, 0) }

\* the PNG buffer that page k of a PDF is rendered into: page 1 whitened
\* (ratio 0.20), page 2 with 1500 contours, the others with neither
RenderedPage(k) ==
    Buffer(PNG_SIG, 70000 + k, TRUE,
           IF k = 1 THEN 20 ELSE 3, 100,
           IF k = 2 THEN 1500 ELSE 40, k)

-----------------------------------------------------------------------------
(* utils.py: ErrorUtils.format_error_response *)

format_error_response_with_usage_missing(error) ==
    [is_success |-> FALSE,
     error |-> [type |-> error.type, message |-> error.message],
     data |-> [pagewise_line_items |-> <<>>, total_item_count |-> 0]]

format_error_response(error) ==
    [is_success |-> FALSE,
     error |-> [type |-> error.type, message |-> error.message],
     token_usage |-> [total_tokens |-> 0, input_tokens |-> 0, output_tokens |-> 0],
     data |-> [pagewise_line_items |-> <<>>, total_item_count |-> 0]]

-----------------------------------------------------------------------------
(* main.py: extract_bill_data, one action per step of the handler *)

NoBuffer == Buffer(<<>>, 0, FALSE, 0, 0, 0, 0)
NoPage == [page_no |-> ""]
NoResponse == [status_code |-> 0]

\* the state the variables of the handler have before a request
HandlerIdle ==
    /\ attempt = 0
    /\ slept = <<>>
    /\ document_bytes = NoBuffer
    /\ doc_type = ""
    /\ image_list = <<>>
    /\ page_num = 0
    /\ fraud_flags = <<>>
    /\ page_data = NoPage
    /\ validation_errors = <<>>
    /\ all_page_data = <<>>
    /\ extractor = NewExtractor
    /\ duplicate_items = <<>>
    /\ response = NoResponse
    /\ calls = <<>>
    /\ fraud_log = <<>>
    /\ requests = <<>>

NoReturn == [pending |-> TRUE]

\* no function is being called on its own
NoCall == arg = <<>> /\ ret = NoReturn

Init == pc = "download" /\ HandlerIdle /\ NoCall

\* lines 137-140: except Exception -> HTTPException(500, format_error_response(e))
HandleException(e) ==
    /\ response' = [status_code |-> 500, detail |-> format_error_response(e)]
    /\ pc' = "done"

\* utils.py download_document: one requests.get that succeeds
DownloadOk ==
    /\ pc = "download"
    /\ \E content \in Documents : document_bytes' = content
    /\ pc' = "check_size"
    /\ UNCHANGED <<attempt, slept, doc_type, image_list, page_num, fraud_flags,
                   page_data, validation_errors, all_page_data, extractor,
                   duplicate_items, response, calls, fraud_log>>
    /\ UNCHANGED <<arg, ret, requests>>

wait_time_fixed(n) == 1

\* the delay before the next attempt: wait_time = 2 ** attempt
RECURSIVE wait_time(_)
wait_time(n) == IF n = 0 THEN 1 ELSE 2 * wait_time(n - 1)

\* download_document: max_retries
max_retries == 3

\* download_document: one requests.get that raises a RequestException
DownloadFail ==
    /\ pc = "download"
    /\ IF attempt < max_retries - 1
       THEN /\ slept' = Append(slept, wait_time(attempt))
            /\ attempt' = attempt + 1
            /\ UNCHANGED <<pc, response>>
       ELSE /\ HandleException(Exception("ConnectionError", "download failed"))
            /\ UNCHANGED <<attempt, slept>>
    /\ UNCHANGED <<document_bytes, doc_type, image_list, page_num, fraud_flags,
                   page_data, validation_errors, all_page_data, extractor,
                   duplicate_items, calls, fraud_log>>
    /\ UNCHANGED <<arg, ret, requests>>

\* lines 59-65: validate file size; the HTTPException(413) is re-raised as
\* it is by `except HTTPException: raise`, its detail a message string
exceeds_size_limit(content) == content.length > MAX_FILE_SIZE_MB * BytesPerMB

CheckSize ==
    /\ pc = "check_size"
    /\ IF exceeds_size_limit(document_bytes)
       THEN /\ response' = [status_code |-> 413,
                            detail |-> [str |-> "File size exceeds limit"]]
            /\ pc' = "done"
       ELSE /\ pc' = "classify"
            /\ UNCHANGED response
    /\ UNCHANGED <<attempt, slept, document_bytes, doc_type, image_list, page_num,
                   fraud_flags, page_data, validation_errors, all_page_data,
                   extractor, duplicate_items, calls, fraud_log>>
    /\ UNCHANGED <<arg, ret, requests>>

\* lines 67-69: detect document type
Classify ==
    /\ pc = "classify"
    /\ LET r == detect_document_type(document_bytes.head) IN
       IF IsRaised(r)
       THEN HandleException(r.raised) /\ UNCHANGED doc_type
       ELSE doc_type' = r.value /\ pc' = "rasterize" /\ UNCHANGED response
    /\ UNCHANGED <<attempt, slept, document_bytes, image_list, page_num,
                   fraud_flags, page_data, validation_errors, all_page_data,
                   extractor, duplicate_items, calls, fraud_log>>
    /\ UNCHANGED <<arg, ret, requests>>

\* utils.py pdf_to_images: one buffer per page that convert_from_bytes yields,
\* appended in the order of the pages
pdf_to_images(n) == [k \in 1..n |-> RenderedPage(k)]

\* lines 71-79: convert PDF to images if needed; all_page_data, extractor
Rasterize ==
    /\ pc = "rasterize"
    /\ \/ /\ doc_type = "pdf"
          /\ \E n \in 1..MaxPages : image_list' = pdf_to_images(n)
          /\ page_num' = 1 /\ pc' = "preprocess"
          /\ all_page_data' = <<>> /\ extractor' = NewExtractor
          /\ UNCHANGED response
       \/ /\ doc_type = "pdf"
          /\ HandleException(Exception("PDFPageCountError", "Unable to get page count"))
          /\ UNCHANGED <<image_list, page_num, all_page_data, extractor>>
       \/ /\ doc_type # "pdf"
          /\ image_list' = <<document_bytes>>
          /\ page_num' = 1 /\ pc' = "preprocess"
          /\ all_page_data' = <<>> /\ extractor' = NewExtractor
          /\ UNCHANGED response
    /\ UNCHANGED <<attempt, slept, document_bytes, doc_type, fraud_flags,
                   page_data, validation_errors, duplicate_items, calls, fraud_log>>
    /\ UNCHANGED <<arg, ret, requests>>

(* preprocessing.py: DocumentPreprocessor.enhance_image.  Angles count     *)
(* tenths of a degree: 45 degrees is 450 and the 0.5 of line 36 is 5.      *)

\* lines 16-26: the binarized page.  THRESH_BINARY sets a pixel to 255 when
\* it is brighter than its neighbourhood mean less 2, and to 0 otherwise
adaptiveThreshold(image) ==
    [size |-> image.size, dark |-> image.dark, turned_by |-> 0]

\* line 29: np.column_stack(np.where(binary > 0)), the number of its rows
coords(binary) == binary.size - binary.dark

\* lines 31-34
normalize_angle(angle) ==
    IF angle < -450 THEN -(900 + angle) ELSE -angle

\* line 36: abs(angle) > 0.5
needs_rotation(angle) == Abs(angle) > 5

\* lines 37-44: the page turned by angle about its centre, on the same canvas
warpAffine(binary, angle) == [binary EXCEPT !.turned_by = angle]

\* line 47: the PNG encoding of the page
imencode(binary) == [head |-> PNG_SIG, decodable |-> TRUE, png |-> binary]

\* the run of enhance_image on a buffer: what it returns or raises, the
\* angle it rotates by, and the cv2 functions it calls, in order
enhance_run(image_bytes) ==
    IF ~image_bytes.decodable
    THEN [result |-> Raised(Exception("error", "cvtColor: !_src.empty()")),
          cv2_calls |-> <<"imdecode", "cvtColor">>]
    ELSE LET binary == adaptiveThreshold(image_bytes)
             angle == normalize_angle(image_bytes.rect_angle)
             rotate == needs_rotation(angle)
         IN [result |-> Returned(imencode(IF rotate THEN warpAffine(binary, angle)
                                                     ELSE binary)),
             angle |-> angle,
             cv2_calls |->
                 <<"imdecode", "cvtColor", "fastNlMeansDenoising",
                   "adaptiveThreshold", "minAreaRect">>
                 \o (IF rotate THEN <<"getRotationMatrix2D", "warpAffine">>
                               ELSE <<>>)
                 \o <<"imencode">>]

enhance_image(image_bytes) == enhance_run(image_bytes).result

\* lines 84-90: preprocess image
Preprocess ==
    /\ pc = "preprocess"
    /\ LET image_bytes == image_list[page_num]
           enhanced == enhance_image(image_bytes)
           flags == detect_fraud(image_bytes)
       IN IF IsRaised(enhanced)
          THEN HandleException(enhanced.raised) /\ UNCHANGED <<fraud_flags, fraud_log>>
          ELSE IF IsRaised(flags)
          THEN HandleException(flags.raised) /\ UNCHANGED <<fraud_flags, fraud_log>>
          ELSE /\ fraud_flags' = flags.value
               /\ fraud_log' = Append(fraud_log,
                      [page_number |-> page_num, image |-> image_bytes,
                       flags |-> flags.value])
               /\ pc' = "ocr"
               /\ UNCHANGED response
    /\ UNCHANGED <<attempt, slept, document_bytes, doc_type, image_list, page_num,
                   page_data, validation_errors, all_page_data, extractor,
                   duplicate_items, calls>>
    /\ UNCHANGED <<arg, ret, requests>>

\* lines 92-94: OCR extraction; pytesseract returns a text or raises
Ocr ==
    /\ pc = "ocr"
    /\ \/ pc' = "extract" /\ UNCHANGED response
       \/ HandleException(Exception("TesseractError", "tesseract failed"))
    /\ UNCHANGED <<attempt, slept, document_bytes, doc_type, image_list, page_num,
                   fraud_flags, page_data, validation_errors, all_page_data,
                   extractor, duplicate_items, calls, fraud_log>>
    /\ UNCHANGED <<arg, ret, requests>>

\* line 97 and extraction.py extract_from_text: the call to the collaborator
\* raises, or returns a message whose usage is added to the counters before
\* its text is parsed
Extract ==
    /\ pc = "extract"
    /\ \/ /\ HandleException(Exception("APIConnectionError", "Connection error."))
          /\ UNCHANGED <<extractor, page_data, calls>>
       \/ \E usage \in Usages, response_text \in ResponseTexts(page_num) :
            LET parsed == json_loads(strip_code_fences(response_text)) IN
            /\ extractor' = track_usage(extractor, usage)
            /\ calls' = Append(calls,
                   [page_number |-> page_num, image |-> image_list[page_num],
                    usage |-> usage, result |-> parsed])
            /\ IF IsRaised(parsed)
               THEN HandleException(parsed.raised) /\ UNCHANGED page_data
               ELSE page_data' = parsed.value /\ pc' = "validate"
                    /\ UNCHANGED response
    /\ UNCHANGED <<attempt, slept, document_bytes, doc_type, image_list, page_num,
                   fraud_flags, validation_errors, all_page_data,
                   duplicate_items, fraud_log>>
    /\ UNCHANGED <<arg, ret, requests>>

\* line 106: all_page_data.append(page_data)
append_page_prepends(pages, page) == <<page>> \o pages

append_page_without_flagged_items(pages, page) ==
    LET Agrees(item) ==
            ~exceeds_tolerance(item.item_rate * item.item_quantity, item.item_amount)
    IN IF HasKey(page, "bill_items")
       THEN Append(pages, [page EXCEPT !.bill_items = SelectSeq(page.bill_items, Agrees)])
       ELSE Append(pages, page)

append_page(pages, page) == Append(pages, page)

\* lines 99-106: validation, then the page joins all_page_data and the loop
\* goes to the next image or ends
Validate ==
    /\ pc = "validate"
    /\ LET r == validate_items(page_data) IN
       IF IsRaised(r)
       THEN /\ HandleException(r.raised)
            /\ UNCHANGED <<validation_errors, all_page_data, page_num>>
       ELSE /\ validation_errors' = r.value
            /\ all_page_data' = append_page(all_page_data, page_data)
            /\ IF page_num < Len(image_list)
               THEN page_num' = page_num + 1 /\ pc' = "preprocess"
               ELSE pc' = "duplicates" /\ UNCHANGED page_num
            /\ UNCHANGED response
    /\ UNCHANGED <<attempt, slept, document_bytes, doc_type, image_list,
                   fraud_flags, page_data, extractor, duplicate_items, calls,
                   fraud_log>>
    /\ UNCHANGED <<arg, ret, requests>>

\* lines 108-111: check for duplicates across pages
DetectDuplicates ==
    /\ pc = "duplicates"
    /\ LET r == detect_duplicates(all_page_data) IN
       IF IsRaised(r)
       THEN HandleException(r.raised) /\ UNCHANGED duplicate_items
       ELSE duplicate_items' = r.value /\ pc' = "respond" /\ UNCHANGED response
    /\ UNCHANGED <<attempt, slept, document_bytes, doc_type, image_list, page_num,
                   fraud_flags, page_data, validation_errors, all_page_data,
                   extractor, calls, fraud_log>>
    /\ UNCHANGED <<arg, ret, requests>>

\* line 114: sum(len(page["bill_items"]) for page in all_page_data)
RECURSIVE count_items(_)
count_items(pages) ==
    IF pages = <<>> THEN 0
    ELSE Len(Head(pages).bill_items) + count_items(Tail(pages))

count_items_skips_first(pages) ==
    IF pages = <<>> THEN 0 ELSE count_items(Tail(pages))

total_items(pages) == count_items(pages)

\* models.py: the fields PagewiseLineItems and BillItem require
page_conforms(page) ==
    /\ {"page_no", "page_type", "bill_items"} \subseteq DOMAIN page
    /\ \A i \in 1..Len(page.bill_items) :
          {"item_name", "item_amount", "item_rate", "item_quantity"}
              \subseteq DOMAIN page.bill_items[i]

\* lines 113-133: total items, then the response is built and returned
Respond ==
    /\ pc = "respond"
    /\ IF \E i \in 1..Len(all_page_data) : ~HasKey(all_page_data[i], "bill_items")
       THEN HandleException(KeyError("bill_items"))
       ELSE IF \E i \in 1..Len(all_page_data) : ~page_conforms(all_page_data[i])
       THEN HandleException(Exception("ValidationError", "validation error for BillData"))
       ELSE /\ response' =
                 [status_code |-> 200,
                  body |-> [is_success |-> TRUE,
                            token_usage |-> get_token_usage(extractor),
                            data |-> [pagewise_line_items |-> all_page_data,
                                      total_item_count |->
                                          total_items(all_page_data)]]]
            /\ pc' = "done"
    /\ UNCHANGED <<attempt, slept, document_bytes, doc_type, image_list, page_num,
                   fraud_flags, page_data, validation_errors, all_page_data,
                   extractor, duplicate_items, calls, fraud_log>>
    /\ UNCHANGED <<arg, ret, requests>>

Next ==
    \/ DownloadOk
    \/ DownloadFail
    \/ CheckSize
    \/ Classify
    \/ Rasterize
    \/ Preprocess
    \/ Ocr
    \/ Extract
    \/ Validate
    \/ DetectDuplicates
    \/ Respond

Spec == Init /\ [][Next]_vars

\* the handler runs to its end: requests.get has a timeout, time.sleep returns,
\* and no step of the handler waits for another request
FairSpec == Spec /\ WF_vars(Next)

-----------------------------------------------------------------------------
(* Properties of the handler, checked under Spec *)

Succeeded == pc = "done" /\ response.status_code = 200

\* the calls of the request whose text could not be parsed
UnparsedCalls ==
    {i \in 1..Len(calls) : IsRaised(calls[i].result)}

\* the page results of the calls that parsed, in the order of the calls
RECURSIVE ParsedResults(_)
ParsedResults(cs) ==
    IF cs = <<>> THEN <<>>
    ELSE (IF IsRaised(Head(cs).result) THEN <<>> ELSE <<Head(cs).result.value>>)
         \o ParsedResults(Tail(cs))

\* C1: page isolation.  When the request has ended and the extraction call
\* of some page returned text that cannot be parsed, while every other call
\* parsed, the response is a success that holds the page results of all the
\* other pages in page order: the calls went on to the last page.  Stated
\* for a failing page that has pages before and after it.
C1_PageIsolation ==
    (pc = "done" /\ \E k \in UnparsedCalls : 1 < k /\ k < Len(image_list))
        => /\ response.status_code = 200
           /\ Len(calls) = Len(image_list)
           /\ response.body.data.pagewise_line_items = ParsedResults(calls)

\* C4: aggregation.  In a successful response total_item_count is the sum
\* over the pages of pagewise_line_items of the number of their bill_items.
C4_TotalItemCount ==
    Succeeded =>
        LET pages == response.body.data.pagewise_line_items IN
        response.body.data.total_item_count
            = SumSeq([k \in 1..Len(pages) |-> Len(pages[k].bill_items)])

\* C4 witness: a success over pages of 2, 3 and 0 items, counted as 5
C4_Witness ==
    /\ Succeeded
    /\ LET pages == response.body.data.pagewise_line_items IN
       /\ Len(pages) = 3
       /\ Len(pages[1].bill_items) = 2
       /\ Len(pages[2].bill_items) = 3
       /\ Len(pages[3].bill_items) = 0
    /\ response.body.data.total_item_count = 5

\* C5: usage accounting.  In every state the counters are the sums of the
\* usage of the calls made so far, total_tokens is input_tokens plus
\* output_tokens, and a successful response carries these sums.
C5_UsageAccounting ==
    LET ins == SumSeq([i \in 1..Len(calls) |-> calls[i].usage.input_tokens])
        outs == SumSeq([i \in 1..Len(calls) |-> calls[i].usage.output_tokens])
    IN /\ extractor.input_tokens = ins
       /\ extractor.output_tokens = outs
       /\ extractor.total_tokens = extractor.input_tokens + extractor.output_tokens
       /\ Succeeded =>
            response.body.token_usage
                = [total_tokens |-> ins + outs, input_tokens |-> ins,
                   output_tokens |-> outs]

\* C5 witness: two calls of input 100 and output 50 each, answered with
\* total 300, input 200, output 100
C5_Witness ==
    /\ Succeeded
    /\ Len(calls) = 2
    /\ \A i \in 1..2 : calls[i].usage = [input_tokens |-> 100, output_tokens |-> 50]
    /\ response.body.token_usage
         = [total_tokens |-> 300, input_tokens |-> 200, output_tokens |-> 100]

\* the failure-shaped response of the interface
FailureShaped(d) ==
    /\ DOMAIN d = {"is_success", "error", "token_usage", "data"}
    /\ d.is_success = FALSE
    /\ DOMAIN d.error = {"type", "message"}
    /\ d.token_usage = [total_tokens |-> 0, input_tokens |-> 0, output_tokens |-> 0]
    /\ d.data = [pagewise_line_items |-> <<>>, total_item_count |-> 0]

\* C6 as stated: every request that ends with an exception, the rejection
\* of an oversized input included, ends with the failure-shaped response.
C6_EveryExceptionFailureShaped ==
    (pc = "done" /\ response.status_code # 200) => FailureShaped(response.detail)

\* C6 amended: a request that ends with an exception ends either with the
\* rejection of an oversized input, status 413 with a message as its detail,
\* or with status 500 and the failure-shaped response as its detail; the
\* first happens exactly when the downloaded buffer exceeds the size limit.
C6_FailureResponse ==
    (pc = "done" /\ response.status_code # 200) =>
        IF document_bytes.length > 50 * 1024 * 1024
        THEN /\ response.status_code = 413
             /\ DOMAIN response.detail = {"str"}
        ELSE /\ response.status_code = 500
             /\ FailureShaped(response.detail)

\* C6 witness: an unsupported format has ended the request with status 500
C6_Witness ==
    /\ pc = "done"
    /\ response.status_code = 500
    /\ response.detail.error.type = "ValueError"
    /\ FailureShaped(response.detail)

\* C8: result order.  A successful response over N page images has N
\* entries, the k-th the result of the call made with page index k on the
\* k-th image; the images of a PDF are its pages in order, and an image
\* document is the single image.
C8_ResultOrder ==
    Succeeded =>
        LET pages == response.body.data.pagewise_line_items IN
        /\ response.body.is_success = TRUE
        /\ Len(pages) = Len(image_list)
        /\ Len(calls) = Len(image_list)
        /\ \A k \in 1..Len(pages) :
              /\ calls[k].page_number = k
              /\ calls[k].image = image_list[k]
              /\ calls[k].result = Returned(pages[k])
              /\ doc_type = "pdf" => image_list[k].origin = k
        /\ doc_type = "image" => image_list = <<document_bytes>>

\* C8 witness: a success over a PDF of three pages with three different results
C8_Witness ==
    /\ Succeeded
    /\ doc_type = "pdf"
    /\ LET pages == response.body.data.pagewise_line_items IN
       /\ Len(pages) = 3
       /\ pages[1] # pages[2] /\ pages[2] # pages[3] /\ pages[1] # pages[3]

\* every page image of the request was extracted: the call of each page
\* returned a page result that has all the fields of the interface
AllPagesExtracted ==
    /\ pc = "done"
    /\ image_list # <<>>
    /\ Len(calls) = Len(image_list)
    /\ \A i \in 1..Len(calls) :
          /\ ~IsRaised(calls[i].result)
          /\ page_conforms(calls[i].result.value)

\* C11: advisory findings do not change the result.  A request all of whose
\* pages were extracted ends with a success whose pagewise_line_items are
\* the page results as the extraction calls returned them, in order, and
\* whose total_item_count counts their items: both are determined by the
\* calls alone, whatever validation issues, duplicate records or fraud
\* flags were found.  In every state the pages collected so far are the
\* results of the calls as returned: validation, duplicate detection and
\* fraud detection removed, corrected or rejected nothing.
C11_AdvisoryFindings ==
    LET results == ParsedResults(calls) IN
    /\ Len(all_page_data) <= Len(results)
    /\ \A k \in 1..Len(all_page_data) : all_page_data[k] = results[k]
    /\ pc = "validate" => page_data = results[Len(results)]
    /\ AllPagesExtracted =>
          /\ Succeeded
          /\ response.body.is_success = TRUE
          /\ response.body.data.pagewise_line_items = results
          /\ response.body.data.total_item_count
                = SumSeq([k \in 1..Len(results) |-> Len(results[k].bill_items)])

\* C11 witness: a success over three pages although the last page had a
\* validation issue, duplicates were recorded and a page was flagged
C11_Witness ==
    /\ AllPagesExtracted
    /\ Succeeded
    /\ Len(image_list) = 3
    /\ validation_errors # <<>>
    /\ duplicate_items # <<>>
    /\ \E i \in 1..Len(fraud_log) : fraud_log[i].flags # <<>>
    /\ response.body.data.pagewise_line_items = ParsedResults(calls)
    /\ response.body.data.total_item_count > 0

\* download_document raised: the third attempt failed
DownloadRaised ==
    /\ pc = "done"
    /\ response.status_code = 500
    /\ response.detail.error.type = "ConnectionError"

\* the attempts and delays of download_document in a state
RetryState ==
    /\ attempt + 1 <= 3
    /\ Len(slept) = attempt
    /\ slept \in {<<>>, <<1>>, <<1, 2>>}
    /\ DownloadRaised => attempt + 1 = 3 /\ slept = <<1, 2>>

\* a step that ends download_document returns the content served by the
\* attempt that succeeded, or raises after the third failure, without a
\* further delay; a failure before the third is followed by one delay and
\* the next attempt; once the call has ended there is no further attempt
RetryStep ==
    /\ (pc = "download" /\ pc' = "check_size") =>
            document_bytes' \in Documents /\ UNCHANGED <<attempt, slept>>
    /\ (pc = "download" /\ pc' = "done") =>
            attempt + 1 = 3 /\ UNCHANGED <<attempt, slept, document_bytes>>
    /\ (pc = "download" /\ pc' = "download") =>
            /\ attempt' = attempt + 1
            /\ Len(slept') = Len(slept) + 1
            /\ UNCHANGED document_bytes
    /\ pc # "download" => UNCHANGED <<attempt, slept, document_bytes>>

\* C12: download retry.  download_document makes at most 3 attempts; it
\* returns the content of the first attempt that succeeds and attempts
\* nothing after it; it waits 1 unit after the first failure and 2 units
\* after the second; after the third failure it raises without waiting;
\* and every call ends, with content or with an error.
C12_DownloadRetry ==
    /\ []RetryState
    /\ [][RetryStep]_vars
    /\ <>(pc # "download")

\* C12 witness: the third attempt returned content after delays of 1 and 2
C12_Witness ==
    /\ pc = "check_size"
    /\ attempt + 1 = 3
    /\ slept = <<1, 2>>
    /\ document_bytes.length > 0

\* the calls whose payload is no page result with all required fields:
\* the text did not parse, or it parsed and a required field is missing
RejectablePayloads ==
    {i \in 1..Len(calls) :
        \/ IsRaised(calls[i].result)
        \/ ~page_conforms(calls[i].result.value)}

\* C13: defensive parsing.  A payload reaches validation, the collected
\* pages (which duplicate detection and the response read) only as a page
\* result that has page_no, page_type, bill_items and the four fields of
\* every item; and a request that received a payload that is not
\* well-formed or omits a required field fails with the parse error of the
\* extraction step, json.loads's JSONDecodeError in this code, and with no
\* other kind of error.
C13_DefensiveParsing ==
    /\ pc = "validate" => page_conforms(page_data)
    /\ \A k \in 1..Len(all_page_data) : page_conforms(all_page_data[k])
    /\ (pc = "done" /\ RejectablePayloads # {}) =>
          /\ response.status_code = 500
          /\ response.detail.error.type = "JSONDecodeError"

-----------------------------------------------------------------------------
(* detect_document_type called on its own *)

\* bytes that may follow: NUL, '%', 'G', '8', 0xFF
TailBytes == {0, 37, 71, 56, 255}

\* every part of every signature, followed by at most MaxTail further
\* bytes, and the PDF magic number in lower case
ClassifierInputs ==
    { SliceTo(signature, k) \o tail :
        signature \in {PDF_MAGIC, JPEG_SIG, PNG_SIG, GIF87_SIG, GIF89_SIG,
                       TIFF_LE_SIG, TIFF_BE_SIG},
        k \in 0..8, tail \in SeqsUpTo(TailBytes, MaxTail) }
    \cup { <<37, 112, 100, 102>> }

InitClassify == pc = "call" /\ arg \in ClassifierInputs /\ ret = NoReturn /\ HandlerIdle

CallDetectDocumentType ==
    /\ pc = "call"
    /\ ret' = detect_document_type(arg)
    /\ pc' = "returned"
    /\ UNCHANGED <<attempt, slept, document_bytes, doc_type, image_list, page_num,
                   fraud_flags, page_data, validation_errors, all_page_data,
                   extractor, duplicate_items, response, calls, fraud_log, arg, requests>>

SpecClassify == InitClassify /\ [][CallDetectDocumentType]_vars

\* p is the beginning of the byte sequence c
BeginsWith(c, p) == Len(c) >= Len(p) /\ \A i \in 1..Len(p) : c[i] = p[i]

\* the image signatures the claim lists: JPEG FFD8FF, PNG 89504E470D0A1A0A,
\* GIF87a, GIF89a, TIFF II*\0 and MM\0*
ListedImageSignatures ==
    { <<255, 216, 255>>, <<137, 80, 78, 71, 13, 10, 26, 10>>,
      <<71, 73, 70, 56, 55, 97>>, <<71, 73, 70, 56, 57, 97>>,
      <<73, 73, 42, 0>>, <<77, 77, 0, 42>> }

\* C7: classifier.  A byte sequence that begins with %PDF is classified pdf,
\* one that begins with a listed image signature is classified image, and
\* for every other one, the empty one included, the call raises the
\* unsupported-type error (a ValueError in the code).
C7_Classifier ==
    pc = "returned" =>
        IF BeginsWith(arg, <<37, 80, 68, 70>>)
        THEN ret = Returned("pdf")
        ELSE IF \E p \in ListedImageSignatures : BeginsWith(arg, p)
        THEN ret = Returned("image")
        ELSE /\ IsRaised(ret)
             /\ ret.raised = Exception("ValueError", "Unsupported document type")

\* C7 witness: GIF89a followed by a byte has been classified image
C7_Witness ==
    /\ pc = "returned"
    /\ BeginsWith(arg, <<71, 73, 70, 56, 57, 97>>) /\ Len(arg) = 7
    /\ ret = Returned("image")

-----------------------------------------------------------------------------
(* validate_items called on its own *)

\* rate 10.00 and quantity 2.00 with amounts 19.97 .. 20.03, and rate 3.33
\* and quantity 1.50 (product 4.995) with amounts 4.98 .. 5.01
ValidationItems ==
    { [item_name |-> "Consultation", item_rate |-> 1000, item_quantity |-> 200,
       item_amount |-> a] : a \in 1997..2003 }
    \cup
    { [item_name |-> "Syringe", item_rate |-> 333, item_quantity |-> 150,
       item_amount |-> a] : a \in 498..501 }

InitValidate ==
    /\ pc = "call"
    /\ arg \in {PageOf(1, items) : items \in SeqsUpTo(ValidationItems, MaxItems)}
    /\ ret = NoReturn
    /\ HandlerIdle

CallValidateItems ==
    /\ pc = "call"
    /\ ret' = validate_items(arg)
    /\ pc' = "returned"
    /\ UNCHANGED <<attempt, slept, document_bytes, doc_type, image_list, page_num,
                   fraud_flags, page_data, validation_errors, all_page_data,
                   extractor, duplicate_items, response, calls, fraud_log, arg, requests>>

SpecValidate == InitValidate /\ [][CallValidateItems]_vars

\* the page of the single item of rate 10.0, quantity 2.0 and the amount
TenTimesTwo(amount) ==
    PageOf(1, << [item_name |-> "Consultation", item_rate |-> 1000,
                  item_quantity |-> 200, item_amount |-> amount] >>)

\* the one issue of that page: item 1, expected 20.00 and the actual amount
IssueOfTenTimesTwo(amount) ==
    << [item_index |-> 1, item_name |-> "Consultation",
        expected |-> 200000, actual |-> amount] >>

\* C2 as stated: for rate 10.0 and quantity 2.0, amount 20.00 gives no
\* issue, amount 20.02 gives no issue, and amount 20.03 gives exactly one
\* issue, of expected 20.00 and actual 20.03.
C2_BoundaryCasesAsStated ==
    pc = "returned" =>
        /\ arg = TenTimesTwo(2000) => ret = Returned(<<>>)
        /\ arg = TenTimesTwo(2002) => ret = Returned(<<>>)
        /\ arg = TenTimesTwo(2003) => ret = Returned(IssueOfTenTimesTwo(2003))

\* C2 amended: amount 20.00 gives no issue; amount 20.02 gives exactly one
\* issue, of expected 20.00 and actual 20.02; amount 20.03 gives exactly one
\* issue, of expected 20.00 and actual 20.03.
C2_BoundaryCases ==
    pc = "returned" =>
        /\ arg = TenTimesTwo(2000) => ret = Returned(<<>>)
        /\ arg = TenTimesTwo(2002) => ret = Returned(IssueOfTenTimesTwo(2002))
        /\ arg = TenTimesTwo(2003) => ret = Returned(IssueOfTenTimesTwo(2003))

\* C2 witness: the item of amount 20.02 has been validated
C2_Witness ==
    pc = "returned" /\ arg = TenTimesTwo(2002) /\ Len(ret.value) = 1

\* rate x quantity and amount differ by more than 0.01
DiffersByMoreThanACent(item) ==
    \/ item.item_rate * item.item_quantity - 100 * item.item_amount > 100
    \/ 100 * item.item_amount - item.item_rate * item.item_quantity > 100

-----------------------------------------------------------------------------
(* detect_duplicates called on its own *)

\* Paracetamol at 50.00 and at 25.00, Syringe at 50.00
DuplicateItems ==
    { [item_name |-> "Paracetamol", item_amount |-> 5000,
       item_rate |-> 2500, item_quantity |-> 200],
      [item_name |-> "Paracetamol", item_amount |-> 2500,
       item_rate |-> 2500, item_quantity |-> 100],
      [item_name |-> "Syringe", item_amount |-> 5000,
       item_rate |-> 5000, item_quantity |-> 100] }

InitDuplicates ==
    /\ pc = "call"
    /\ \E n \in 0..MaxPages :
          arg \in [1..n -> {PageOf(0, items) :
                              items \in SeqsUpTo(DuplicateItems, MaxItems)}]
    /\ ret = NoReturn
    /\ HandlerIdle

CallDetectDuplicates ==
    /\ pc = "call"
    /\ ret' = detect_duplicates(arg)
    /\ pc' = "returned"
    /\ UNCHANGED <<attempt, slept, document_bytes, doc_type, image_list, page_num,
                   fraud_flags, page_data, validation_errors, all_page_data,
                   extractor, duplicate_items, response, calls, fraud_log, arg, requests>>

SpecDuplicates == InitDuplicates /\ [][CallDetectDuplicates]_vars

\* all items of all pages, in scan order
ScanOrder(pages) == Flatten([k \in 1..Len(pages) |-> pages[k].bill_items])

SameKey(a, b) == a.item_name = b.item_name /\ a.item_amount = b.item_amount

\* item i of the scan has the key of an earlier item
LaterOccurrence(flat, i) == \E j \in 1..(i - 1) : SameKey(flat[j], flat[i])

\* one record for every later occurrence, from item i on, in scan order
RECURSIVE RecordsFrom(_, _)
RecordsFrom(flat, i) ==
    IF i > Len(flat) THEN <<>>
    ELSE (IF LaterOccurrence(flat, i) THEN <<[duplicate |-> flat[i].item_name]>>
          ELSE <<>>) \o RecordsFrom(flat, i + 1)

\* C3: duplicate detection.  Scanning the pages in order, the first
\* occurrence of a key (item_name, item_amount) gives no record and every
\* later occurrence gives one, in scan order; the number of records is the
\* number of items minus the number of distinct keys.
C3_DuplicateDetection ==
    pc = "returned" =>
        LET flat == ScanOrder(arg)
            keys == {<<flat[i].item_name, flat[i].item_amount>> : i \in 1..Len(flat)}
        IN /\ ret = Returned(RecordsFrom(flat, 1))
           /\ Len(ret.value) = Len(flat) - Cardinality(keys)

\* C3 witness: Paracetamol at 50.00 on pages 1 and 3 and Paracetamol at
\* 25.00 on page 2 have given exactly one record
C3_Witness ==
    /\ pc = "returned"
    /\ Len(arg) = 3
    /\ \A k \in {1, 3} :
          /\ Len(arg[k].bill_items) = 1
          /\ arg[k].bill_items[1].item_name = "Paracetamol"
          /\ arg[k].bill_items[1].item_amount = 5000
    /\ Len(arg[2].bill_items) = 1
    /\ arg[2].bill_items[1].item_name = "Paracetamol"
    /\ arg[2].bill_items[1].item_amount = 2500
    /\ ret = Returned(<<[duplicate |-> "Paracetamol"]>>)

-----------------------------------------------------------------------------
(* detect_fraud called on the pages of a document, one after the other *)

\* white ratios 0, 0.14, 0.15, 0.16, 0.20 of 100 pixels and 0.15, 0.20 of 20
\* pixels, with 12, 1000, 1001 and 1500 contours
FraudImages ==
    { Buffer(PNG_SIG, 70000, TRUE, w[1], w[2], c, 0) :
        w \in {<<0, 100>>, <<14, 100>>, <<15, 100>>, <<16, 100>>, <<20, 100>>,
               <<3, 20>>, <<4, 20>>},
        c \in {12, 1000, 1001, 1500} }

InitFraud ==
    /\ pc = "detect_fraud"
    /\ image_list \in SeqsUpTo(FraudImages, MaxFraudPages) \ {<<>>}
    /\ page_num = 1
    /\ attempt = 0 /\ slept = <<>> /\ document_bytes = NoBuffer /\ doc_type = ""
    /\ fraud_flags = <<>> /\ page_data = NoPage /\ validation_errors = <<>>
    /\ all_page_data = <<>> /\ extractor = NewExtractor /\ duplicate_items = <<>>
    /\ response = NoResponse /\ calls = <<>> /\ fraud_log = <<>>
    /\ requests = <<>>
    /\ NoCall

\* main.py line 87 for the page page_num
CallDetectFraud ==
    /\ pc = "detect_fraud"
    /\ LET flags == detect_fraud(image_list[page_num]) IN
       /\ fraud_flags' = flags.value
       /\ fraud_log' = Append(fraud_log,
              [page_number |-> page_num, image |-> image_list[page_num],
               flags |-> flags.value])
    /\ IF page_num < Len(image_list)
       THEN page_num' = page_num + 1 /\ UNCHANGED pc
       ELSE pc' = "returned" /\ UNCHANGED page_num
    /\ UNCHANGED <<attempt, slept, document_bytes, doc_type, image_list,
                   page_data, validation_errors, all_page_data, extractor,
                   duplicate_items, response, calls, arg, ret, requests>>

SpecFraud == InitFraud /\ [][CallDetectFraud]_vars

\* C9: fraud flags.  The flags of a page are exactly those of two tests on
\* that page: the white-patch flag is present exactly when white pixels /
\* all pixels > 0.15, the font flag exactly when the contour count > 1000;
\* each is decided by its own test on the page's own image.
C9_FraudFlags ==
    \A k \in 1..Len(fraud_log) :
        LET image == image_list[fraud_log[k].page_number]
            flags == fraud_log[k].flags
            present == {flags[i] : i \in 1..Len(flags)}
        IN /\ fraud_log[k].page_number = k
           /\ ("Excessive white patches detected" \in present)
                 <=> (100 * image.white > 15 * image.size)
           /\ ("Potential font inconsistency" \in present)
                 <=> (image.contours > 1000)
           /\ present \subseteq {"Excessive white patches detected",
                                 "Potential font inconsistency"}
           /\ Len(flags) = Cardinality(present)

\* C9 witness: page 1 of ratio 0.20 and few contours has the white-patch
\* flag only, page 2 of 1500 contours and a low ratio the font flag only
C9_Witness ==
    /\ pc = "returned"
    /\ Len(fraud_log) = 2
    /\ image_list[1].white = 20 /\ image_list[1].size = 100
    /\ image_list[1].contours = 12
    /\ image_list[2].white = 14 /\ image_list[2].contours = 1500
    /\ fraud_log[1].flags = <<"Excessive white patches detected">>
    /\ fraud_log[2].flags = <<"Potential font inconsistency">>

-----------------------------------------------------------------------------
(* extract_bill_data served for several requests side by side.  FastAPI     *)
(* runs one call of the handler per request; what a call shares with the   *)
(* others is the module, not its locals.  A step is one extraction call of *)
(* one request: the steps of the page loop between two calls touch no      *)
(* counter.                                                                *)

Requests == 1..MaxRequests

\* a request that has not arrived
NoRequest == [pc |-> "idle"]

InitConcurrent ==
    /\ pc = "serving"
    /\ requests = [r \in Requests |-> NoRequest]
    /\ attempt = 0 /\ slept = <<>> /\ document_bytes = NoBuffer /\ doc_type = ""
    /\ image_list = <<>> /\ page_num = 0
    /\ fraud_flags = <<>> /\ page_data = NoPage /\ validation_errors = <<>>
    /\ all_page_data = <<>> /\ extractor = NewExtractor /\ duplicate_items = <<>>
    /\ response = NoResponse /\ calls = <<>> /\ fraud_log = <<>>
    /\ NoCall

\* the variables of the single handler, which stand idle here
SingleHandlerUnchanged ==
    UNCHANGED <<pc, attempt, slept, document_bytes, doc_type, image_list,
                page_num, fraud_flags, page_data, validation_errors,
                all_page_data, extractor, duplicate_items, response, calls,
                fraud_log, arg, ret>>

\* main.py lines 72-79 for request r: image_list, then all_page_data = [] and
\* extractor = BillExtractor(), whose __init__ sets its three counters to 0
StartRequest(r) ==
    /\ requests[r].pc = "idle"
    /\ \E n \in 1..MaxCalls :
          requests' = [requests EXCEPT ![r] =
              [pc |-> "extract", image_list |-> pdf_to_images(n), page_num |-> 1,
               extractor |-> NewExtractor, calls |-> <<>>,
               response |-> NoResponse, overlapped |-> FALSE]]
    /\ SingleHandlerUnchanged

\* another request is between two of its extraction calls
OtherInFlight(r) ==
    \E q \in Requests \ {r} :
        requests[q].pc = "extract" /\ requests[q].calls # <<>>

\* the counters as shared by all the handler calls in progress
add_usage_to_shared_counters(reqs, r, usage) ==
    [q \in DOMAIN reqs |->
        IF reqs[q].pc = "extract"
        THEN [reqs[q] EXCEPT !.extractor = track_usage(@, usage)]
        ELSE reqs[q]]

\* extraction.py lines 49-51 in request r: self is the extractor that the
\* handler call of r created
add_usage(reqs, r, usage) ==
    [reqs EXCEPT ![r].extractor = track_usage(@, usage)]

\* main.py line 97 for the page page_num of request r
ExtractPage(r) ==
    /\ requests[r].pc = "extract"
    /\ \E usage \in Usages :
          LET counted == add_usage(requests, r, usage)
              last == requests[r].page_num = Len(requests[r].image_list)
          IN requests' = [counted EXCEPT
                 ![r].calls = Append(@, [page_number |-> requests[r].page_num,
                                         usage |-> usage]),
                 ![r].overlapped = @ \/ OtherInFlight(r),
                 ![r].page_num = IF last THEN @ ELSE @ + 1,
                 ![r].pc = IF last THEN "respond" ELSE "extract"]
    /\ SingleHandlerUnchanged

\* main.py lines 123-133 for request r
RespondRequest(r) ==
    /\ requests[r].pc = "respond"
    /\ requests' = [requests EXCEPT
           ![r].response =
               [status_code |-> 200,
                body |-> [is_success |-> TRUE,
                          token_usage |-> get_token_usage(requests[r].extractor)]],
           ![r].pc = "done"]
    /\ SingleHandlerUnchanged

NextConcurrent ==
    \E r \in Requests :
        \/ StartRequest(r)
        \/ ExtractPage(r)
        \/ RespondRequest(r)

SpecConcurrent == InitConcurrent /\ [][NextConcurrent]_vars

\* the sums of the usage of the extraction calls that request r made
OwnUsage(r) ==
    LET cs == requests[r].calls
        ins == SumSeq([i \in 1..Len(cs) |-> cs[i].usage.input_tokens])
        outs == SumSeq([i \in 1..Len(cs) |-> cs[i].usage.output_tokens])
    IN [total_tokens |-> ins + outs, input_tokens |-> ins, output_tokens |-> outs]

\* C14: request-scoped usage counters.  With requests served side by side,
\* in every interleaving of their extraction calls, the counters of a
\* request are the sums of the usage of its own calls, starting from zero,
\* and the token_usage it reports is these sums: no call of another
\* request is counted.
C14_RequestScopedCounters ==
    \A r \in Requests :
        requests[r].pc # "idle" =>
            /\ requests[r].extractor = OwnUsage(r)
            /\ requests[r].calls = <<>> => requests[r].extractor = NewExtractor
            /\ requests[r].pc = "done" =>
                  requests[r].response.body.token_usage = OwnUsage(r)

\* C14 witness: two requests whose calls interleaved have reported
\* different sums, 300 and 20
C14_Witness ==
    /\ \A r \in {1, 2} :
          /\ requests[r].pc = "done"
          /\ requests[r].overlapped
          /\ Len(requests[r].calls) = 2
    /\ requests[1].response.body.token_usage.total_tokens = 300
    /\ requests[2].response.body.token_usage.total_tokens = 20

-----------------------------------------------------------------------------
(* enhance_image called on its own *)

\* a decoded page of 100 pixels
Scan(dark, rect_angle) ==
    [Buffer(PNG_SIG, 70000, TRUE, 3, 100, 40, 0)
        EXCEPT !.dark = dark, !.rect_angle = rect_angle]

\* what cv2.minAreaRect can report, by the convention of the build: from
\* -90 to 90 degrees
RawAngles == -900..900

\* what it can report for the rectangle of the whole upright page
UprightAngles == {-900, 0, 900}

\* the buffers enhance_image is called with: a blank page, whose pixels all
\* binarize to 255 so that the coordinates are those of the whole page; a
\* page with ink, at every angle; and a buffer that is no image.  The
\* brightest pixel of a page is never below its neighbourhood mean, so
\* every page keeps a coordinate.
EnhanceInputs ==
    {Scan(0, a) : a \in UprightAngles}
        \cup {Scan(40, a) : a \in RawAngles}
        \cup {Buffer(JPEG_SIG \o <<224, 0, 16>>, 9000, FALSE, 0, 0, 0, 0)}

InitEnhance ==
    /\ pc = "call"
    /\ arg \in EnhanceInputs
    /\ arg.decodable => coords(adaptiveThreshold(arg)) >= 1
    /\ ret = NoReturn
    /\ HandlerIdle

\* main.py line 86; calls records the cv2 functions called
CallEnhanceImage ==
    /\ pc = "call"
    /\ ret' = enhance_image(arg)
    /\ calls' = enhance_run(arg).cv2_calls
    /\ pc' = "returned"
    /\ UNCHANGED <<attempt, slept, document_bytes, doc_type, image_list, page_num,
                   fraud_flags, page_data, validation_errors, all_page_data,
                   extractor, duplicate_items, response, fraud_log, arg, requests>>

SpecEnhance == InitEnhance /\ [][CallEnhanceImage]_vars

Called(f) == \E i \in 1..Len(calls) : calls[i] = f

\* C15: blank page.  When enhance_image has run on a page without a
\* foreground pixel, a page none of whose pixels binarizes to 0, it has
\* computed no angle and applied no rotation, and it has returned the
\* encoding of the binarized page.
C15_BlankPage ==
    (pc = "returned" /\ arg.decodable /\ arg.dark = 0) =>
        /\ ~Called("minAreaRect")
        /\ ~Called("warpAffine")
        /\ ret = Returned(imencode(adaptiveThreshold(arg)))

\* C16: deskew angle normalization.  For every raw angle from -90 to 90
\* degrees that cv2.minAreaRect reported, the angle enhance_image computed
\* from it is greater than -45 and at most 45 degrees, and the page was
\* rotated exactly when that angle is more than 0.5 degrees from 0.
C16_AngleNormalization ==
    (pc = "returned" /\ arg.decodable /\ arg.rect_angle \in RawAngles) =>
        LET angle == enhance_run(arg).angle IN
        /\ -450 < angle /\ angle <= 450
        /\ Called("warpAffine") <=> Abs(angle) > 5
        /\ ret.value.png.turned_by = (IF Abs(angle) > 5 THEN angle ELSE 0)

=============================================================================
